---------------------------- MODULE Spec2Model ----------------------------
(***************************************************************************)
(* A model of ycmd/completers/rust/rust_completer.py: the RustCompleter    *)
(* session that supervises one racer helper process and talks to it over   *)
(* its pipes under a single lock.                                          *)
(*                                                                         *)
(* Text is modelled as sequences of one-character strings, so that the     *)
(* operations on text (strip, startswith, split, int) are computed as the  *)
(* code computes them.                                                     *)
(***************************************************************************)
EXTENDS Integers, Sequences, FiniteSets, TLC

(***************************************************************************)
(* Bounds of the model.                                                    *)
(***************************************************************************)
\* Number of calls of public operations in one behaviour.
MaxCalls == 3
\* Number of helper launches by StartServer / RestartServer after construction.
MaxStarts == 2
\* Number of readline() calls of one _ReadResponse that return end-of-stream.
MaxEofReads == 2

Threads == {"t1", "t2"}
None == "None"

(***************************************************************************)
(* Text helpers: Python's str methods used by the source.                  *)
(***************************************************************************)
\* The characters str.strip() and int() of Python 2.7 take for whitespace:
\* ' ', '\t', '\n', '\x0b', '\x0c', '\r'.  A text is a sequence of
\* one-character strings; VerticalTab is the element standing for '\x0b',
\* which no string literal of the module can hold.
VerticalTab == "\\x0b"
Whitespace == {" ", "\n", "\t", "\r", "\f", VerticalTab}
Digits == {"0", "1", "2", "3", "4", "5", "6", "7", "8", "9"}

RECURSIVE LStrip(_)
LStrip(s) == IF s # <<>> /\ Head(s) \in Whitespace THEN LStrip(Tail(s)) ELSE s

RECURSIVE RStrip(_)
RStrip(s) ==
    IF s # <<>> /\ s[Len(s)] \in Whitespace
    THEN RStrip(SubSeq(s, 1, Len(s) - 1))
    ELSE s

\* str.strip()
Strip(s) == RStrip(LStrip(s))

\* str.startswith( prefix )
StartsWith(s, prefix) ==
    /\ Len(s) >= Len(prefix)
    /\ SubSeq(s, 1, Len(prefix)) = prefix

\* str.find( c ) + 1: the index of the first c in s, 0 when there is none
Find(s, c) ==
    IF \E i \in 1..Len(s) : s[i] = c
    THEN CHOOSE i \in 1..Len(s) : s[i] = c /\ \A j \in 1..(i - 1) : s[j] # c
    ELSE 0

\* A split that ignores maxsplit: str.split( sep ).
RECURSIVE SplitAll(_, _, _)
SplitAll(s, sep, maxsplit) ==
    LET i == Find(s, sep)
    IN  IF i = 0
        THEN <<s>>
        ELSE <<SubSeq(s, 1, i - 1)>>
                 \o SplitAll(SubSeq(s, i + 1, Len(s)), sep, maxsplit)

\* str.split( sep, maxsplit ): at most maxsplit splits, leftmost first
RECURSIVE Split(_, _, _)
Split(s, sep, maxsplit) ==
    LET i == Find(s, sep)
    IN  IF maxsplit = 0 \/ i = 0
        THEN <<s>>
        ELSE <<SubSeq(s, 1, i - 1)>>
                 \o Split(SubSeq(s, i + 1, Len(s)), sep, maxsplit - 1)

\* sep.join( parts )
RECURSIVE Join(_, _)
Join(parts, sep) ==
    IF parts = <<>> THEN <<>>
    ELSE IF Len(parts) = 1 THEN parts[1]
    ELSE parts[1] \o sep \o Join(Tail(parts), sep)

DigitVal(c) ==
    CASE c = "0" -> 0 [] c = "1" -> 1 [] c = "2" -> 2 [] c = "3" -> 3
      [] c = "4" -> 4 [] c = "5" -> 5 [] c = "6" -> 6 [] c = "7" -> 7
      [] c = "8" -> 8 [] c = "9" -> 9

DigitChar(d) ==
    CASE d = 0 -> "0" [] d = 1 -> "1" [] d = 2 -> "2" [] d = 3 -> "3"
      [] d = 4 -> "4" [] d = 5 -> "5" [] d = 6 -> "6" [] d = 7 -> "7"
      [] d = 8 -> "8" [] d = 9 -> "9"

RECURSIVE DigitsVal(_)
DigitsVal(s) ==
    IF s = <<>> THEN 0
    ELSE 10 * DigitsVal(SubSeq(s, 1, Len(s) - 1)) + DigitVal(s[Len(s)])

\* The unsigned digits of the text handed to int() of Python 2.7:
\* whitespace stripped, one optional sign removed, and the whitespace
\* between the sign and the digits skipped (int( '- 1' ) is -1).
IntBody(s) ==
    LET t == Strip(s)
    IN  IF t # <<>> /\ Head(t) \in {"+", "-"} THEN LStrip(Tail(t)) ELSE t

\* Whether int( s ) returns (TRUE) or raises ValueError (FALSE)
IntOk(s) ==
    /\ IntBody(s) # <<>>
    /\ \A i \in 1..Len(IntBody(s)) : IntBody(s)[i] \in Digits

\* int( s ), for a text with IntOk
IntVal(s) ==
    LET t == Strip(s)
    IN  IF Head(t) = "-" THEN 0 - DigitsVal(IntBody(s)) ELSE DigitsVal(IntBody(s))

\* str( n ) of a natural number
RECURSIVE NatStr(_)
NatStr(n) ==
    IF n < 10 THEN <<DigitChar(n)>>
    ELSE NatStr(n \div 10) \o <<DigitChar(n % 10)>>

\* str( argument ) of an integer argument
Str(n) == IF n < 0 THEN <<"-">> \o NatStr(0 - n) ELSE NatStr(n)

\* utils.ToUtf8IfNeeded: a byte string is returned as it is
ToUtf8IfNeeded(s) == s


(***************************************************************************)
(* The wire protocol (rust_completer.py, _ParseCompleteResponse and the    *)
(* adapters).                                                              *)
(***************************************************************************)
\* prefix = 'MATCH '
MatchPrefix ==
    <<"M", "A", "T", "C", "H", " ">>

\* 'END'
EndLine ==
    <<"E", "N", "D">>

Comma == ","

\* What _ParseCompleteResponse( line ) does, ret telling how it returns:
\* "none" for a line without the prefix (None is returned), "match" with
\* the six keys of the dict, or "raise" with the exception of the first
\* failing field, the fields being evaluated in the order of the dict
\* literal (parts[0], int(parts[1]), int(parts[2]) + 1, parts[3], ...).
ParseWith(line, parts) ==
    IF ~StartsWith(line, MatchPrefix)
    THEN [ret |-> "none"]
    ELSE IF Len(parts) < 2 THEN [ret |-> "raise", exc |-> "IndexError"]
    ELSE IF ~IntOk(parts[2]) THEN [ret |-> "raise", exc |-> "ValueError"]
    ELSE IF Len(parts) < 3 THEN [ret |-> "raise", exc |-> "IndexError"]
    ELSE IF ~IntOk(parts[3]) THEN [ret |-> "raise", exc |-> "ValueError"]
    ELSE IF Len(parts) < 6 THEN [ret |-> "raise", exc |-> "IndexError"]
    ELSE [ret        |-> "match",
          name       |-> ToUtf8IfNeeded(parts[1]),
          line_num   |-> IntVal(parts[2]),
          column_num |-> IntVal(parts[3]) + 1,
          filepath   |-> ToUtf8IfNeeded(parts[4]),
          kind       |-> ToUtf8IfNeeded(parts[5]),
          snippet    |-> ToUtf8IfNeeded(parts[6])]

\* line[ len( prefix ): ].split( ',', 5 )
MatchParts(line) ==
    Split(SubSeq(line, Len(MatchPrefix) + 1, Len(line)), Comma, 5)

\* _ParseCompleteResponse with the prefix test dropped: every line is split.
ParseAnyLine(line) == ParseWith(MatchPrefix, MatchParts(line))

_ParseCompleteResponse(line) == ParseWith(line, MatchParts(line))

\* responses.BuildCompletionData( insertion_text, menu_text, kind,
\* extra_menu_info )
_ConvertCompletionData(completion_data) ==
    [insertion_text  |-> completion_data.name,
     menu_text       |-> completion_data.name,
     kind            |-> completion_data.kind,
     extra_menu_info |-> completion_data.snippet]

\* responses.BuildGoToResponse( line_num, column_num, filepath )
_ConvertGoToData(completion_data) ==
    [line_num   |-> completion_data.line_num,
     column_num |-> completion_data.column_num,
     filepath   |-> completion_data.filepath]

(***************************************************************************)
(* Lines the helper may print (each ends with the newline readline()       *)
(* returns), and the batches it may answer a request with.                 *)
(***************************************************************************)
\* 'MATCH a,1,0,/f,fn,foo()\n'
LineGood1 ==
    <<"M", "A", "T", "C", "H", " ", "a", ",", "1", ",", "0", ",", "/", "f",
      ",", "f", "n", ",", "f", "o", "o", "(", ")", "\n">>

\* 'MATCH b,+ 2,\x0c3,/g,st,foo(a, b)\n': the numbers written with the
\* whitespace int() accepts
LineGood2 ==
    <<"M", "A", "T", "C", "H", " ", "b", ",", "+", " ", "2", ",", "\f", "3",
      ",", "/", "g",
      ",", "s", "t", ",", "f", "o", "o", "(", "a", ",", " ", "b", ")", "\n">>

\* 'INFO x,y\n': helper chatter
LineDiag ==
    <<"I", "N", "F", "O", " ", "x", ",", "y", "\n">>

\* 'MATCH a,1\n': fewer than six fields
LineShort ==
    <<"M", "A", "T", "C", "H", " ", "a", ",", "1", "\n">>

\* 'MATCH a,x,0,/f,fn,s\n': a line number that is no number
LineNotNum ==
    <<"M", "A", "T", "C", "H", " ", "a", ",", "x", ",", "0", ",", "/", "f",
      ",", "f", "n", ",", "s", "\n">>

\* 'END\n'
LineEnd == EndLine \o <<"\n">>

Batches ==
    { <<>>,
      <<LineGood1>>,
      <<LineDiag, LineGood2, LineGood1>>,
      <<LineDiag>>,
      <<LineShort, LineGood1>>,
      <<LineNotNum>> }

\* What a helper that stops answering may have printed before it stopped.
PartialBatches == { <<>>, <<LineGood1>> }

\* Every text readline().strip() can hand to the decoder: the lines the
\* helper may print, stripped, and the '' of end-of-stream.
ReadableLines ==
    UNION {{Strip(b[i]) : i \in DOMAIN b} : b \in Batches \cup PartialBatches}
        \cup {<<>>}

\* _ParseCompleteResponse of each of them, computed once
DecodedLines == [line \in ReadableLines |-> _ParseCompleteResponse(line)]

\* The decoding of every line of a response, in order
ParsedLines(response) ==
    [i \in 1..Len(response) |-> DecodedLines[response[i]]]

IsMatch(parsed) == parsed.ret = "match"

\* The loop of ComputeCandidatesInner over the response: the exception of
\* the first line whose decoding raises, else the matches in order, each
\* converted.
CompleteLoop(response) ==
    LET parsed  == ParsedLines(response)
        raising == {i \in 1..Len(response) : parsed[i].ret = "raise"}
        first   == CHOOSE i \in raising : \A j \in raising : i <= j
        matches == SelectSeq(parsed, IsMatch)
    IN  IF raising # {}
        THEN [outcome |-> parsed[first].exc, value |-> <<>>]
        ELSE [outcome |-> "ok",
              value   |-> [i \in 1..Len(matches) |->
                              _ConvertCompletionData(matches[i])]]

\* The loop of _GoToDefinition deciding on the last line that is not
\* skipped instead of the first.
GoToLoopLast(response) ==
    LET parsed == ParsedLines(response)
        hits   == {i \in 1..Len(response) : parsed[i].ret # "none"}
        last   == CHOOSE i \in hits : \A j \in hits : i >= j
    IN  IF hits = {}
        THEN [outcome |-> "not_found", value |-> <<>>]
        ELSE IF parsed[last].ret = "raise"
        THEN [outcome |-> parsed[last].exc, value |-> <<>>]
        ELSE [outcome |-> "ok", value |-> <<_ConvertGoToData(parsed[last])>>]

\* The loop of _GoToDefinition over the response: it ends at the first line
\* that is not skipped, with the location of that line, or with the
\* exception its decoding raises; 'Could not find definition' when every
\* line is skipped.
GoToLoop(response) ==
    LET parsed == ParsedLines(response)
        hits   == {i \in 1..Len(response) : parsed[i].ret # "none"}
        first  == CHOOSE i \in hits : \A j \in hits : i <= j
    IN  IF hits = {}
        THEN [outcome |-> "not_found", value |-> <<>>]
        ELSE IF parsed[first].ret = "raise"
        THEN [outcome |-> parsed[first].exc, value |-> <<>>]
        ELSE [outcome |-> "ok", value |-> <<_ConvertGoToData(parsed[first])>>]

(***************************************************************************)
(* The session: RustCompleter and its helper processes.                    *)
(***************************************************************************)
VARIABLES
    lock,       \* self._lock: the thread that holds it, or None
    handle,     \* self._racer_handle: index in procs of the process it refers to
    procs,      \* every helper process launched so far, in launch order
    files,      \* scratch files on disk (NamedTemporaryFile names, numbered)
    calls,      \* number of operations called so far
    starts,     \* number of StartServer / RestartServer calls so far
    pc,         \* per thread: where it is in its operation
    op,         \* per thread: the operation it is in
    req,        \* per thread: request_data
    tmpfile,    \* per thread: number of the scratch file it created, 0 if none
    response,   \* per thread: the list _ReadResponse is building / has returned
    eofReads,   \* per thread: readline() calls that returned end-of-stream
    outcome,    \* per thread: how the operation ended
    result,     \* per thread: the value returned, as a sequence
    host,       \* what __init__ reads: user options, environment, file system
    ctor        \* __init__: where it is, what it raised, what it resolved

vars == <<lock, handle, procs, files, calls, starts, pc, op, req, tmpfile,
          response, eofReads, outcome, result, host, ctor>>

ctorVars == <<host, ctor>>

threadVars == <<pc, op, req, tmpfile, response, eofReads, outcome, result>>

\* The subcommands routed to _GoToDefinition
GoToOps == {"GoToDefinition", "GoToDeclaration", "GoTo"}

Ops == {"Complete", "StartServer", "StopServer", "RestartServer",
        "ServerRunning"} \cup GoToOps

\* request_data: line_num, start_column / column_num, filepath
NoRequest == [line_num |-> 0, col |-> 0, filepath |-> <<>>]

Requests ==
    { [line_num |-> 12, col |-> 2, filepath |-> <<"/", "f">>],
      [line_num |-> 1, col |-> 1, filepath |-> <<>>] }

\* The requests each subcommand is called with: a completion for a named
\* and for an unnamed buffer, a go-to for a named one
RequestsOf(o) ==
    IF o = "Complete" THEN Requests
    ELSE IF o \in GoToOps THEN {r \in Requests : r.filepath # <<>>}
    ELSE {NoRequest}

\* utils.SafePopen( [ binary, 'daemon' ], pipes ) when the launch succeeds:
\* a running process with empty pipes.  replaced records the process whose
\* handle a restart replaced with this one (0: launched by construction or
\* by StartServer).
_StartRacer(replaced) ==
    [alive     |-> TRUE,    \* the process has not exited
     reaped    |-> FALSE,   \* poll() or communicate() has seen its exit
     signalled |-> FALSE,   \* a termination signal was sent to it
     hung      |-> FALSE,   \* it has stopped answering requests
     stdin     |-> <<>>,    \* request lines written and not yet consumed
     stdout    |-> <<>>,    \* lines printed and not yet read
     replaced  |-> replaced]

\* The launch of _StartRacer after construction: the process is started
\* (TRUE), or the launch raises OSError (FALSE), as it does when the binary
\* has lost its execute permission since it was looked up.
Launches == BOOLEAN

\* self._racer_handle.poll() == None
ServerIsRunning == procs[handle].alive

\* What poll() leaves behind: the exit of a process that has exited is
\* collected (returncode is set)
Poll(ps, h) == [ps EXCEPT ![h].reaped = @ \/ ~ps[h].alive]

\* Whether Popen.terminate() raises OSError (no such process): it sends the
\* signal with no test of returncode, so it does once the exit was collected
TerminateRaises(ps, h) == ps[h].reaped

\* Popen.terminate() when it returns: the signal is sent, to a running
\* process or to one that has exited and was not collected yet
Terminate(ps, h) == [ps EXCEPT ![h].signalled = TRUE]

\* Popen.communicate(), once the process has exited: what was left in its
\* output pipe is read and its exit is collected
Communicate(ps, h) == [ps EXCEPT ![h].stdout = <<>>, ![h].reaped = TRUE]

\* The lock taken although another thread holds it.
LockNeverHeld == TRUE

\* Whether `with self._lock` can be entered
LockIsFree == lock = None

\* The value _RestartServer assigns to self._racer_handle: the new process
HandleAfterRestart == Len(procs) + 1

CmdComplete ==
    <<"c", "o", "m", "p", "l", "e", "t", "e">>

CmdFindDefinition ==
    <<"f", "i", "n", "d", "-", "d", "e", "f", "i", "n", "i", "t", "i", "o", "n">>

\* tmpfile.name of scratch file number n
TmpName(n) == <<"/", "t", "m", "p", "/", "t", "m", "p">> \o NatStr(n)

\* The arguments joined without the command in front.
RequestWithoutCommand(command, arguments) == Join(arguments, <<" ">>)

\* What _SendRequest writes first: ' '.join( [ command ] + [ str( a ) ... ] ).
\* The arguments are given already stringified.
RequestLine(command, arguments) == Join(<<command>> \o arguments, <<" ">>)

\* What _SendRequest writes next
Newline == <<"\n">>

\* A line of the pipe that its newline has not ended yet
Unterminated(line) == line = <<>> \/ line[Len(line)] # "\n"

\* self._racer_handle.stdin.write( text ): the bytes follow those already in
\* the pipe.  stdin is kept as the sequence of lines in it, the last one
\* possibly not ended yet.
WriteRequest(ps, h, text) ==
    LET in == ps[h].stdin
    IN  IF in # <<>> /\ Unterminated(in[Len(in)])
        THEN [ps EXCEPT ![h].stdin = [in EXCEPT ![Len(in)] = in[Len(in)] \o text]]
        ELSE [ps EXCEPT ![h].stdin = Append(in, text)]

\* NamedTemporaryFile( delete=False ): a name not in use
FreshTmp ==
    CHOOSE n \in 1..(MaxCalls + 1) :
        /\ n \notin files \cup {tmpfile[t] : t \in Threads}
        /\ \A m \in 1..(n - 1) : m \in files \cup {tmpfile[t] : t \in Threads}

Reading == {"cc_read", "gt_read"}

\* Between the two writes of _SendRequest
Sending == {"cc_nl", "gt_nl"}

\* GoTo routed to the completion code, the other subcommands as they are.
EntryGoToElsewhere(o) ==
    CASE o \in {"Complete", "GoTo"}                   -> "cc_send"
      [] o \in {"GoToDefinition", "GoToDeclaration"} -> "gt_send"
      [] o = "StartServer"                            -> "start"
      [] o = "StopServer"                             -> "stop"
      [] o = "RestartServer"                          -> "rs_term"

\* The first statement of each operation's body, once the lock is held
Entry(o) ==
    CASE o = "Complete"      -> "cc_send"
      [] o \in GoToOps       -> "gt_send"
      [] o = "StartServer"   -> "start"
      [] o = "StopServer"    -> "stop"
      [] o = "RestartServer" -> "rs_term"

(***************************************************************************)
(* Construction: what __init__ reads and what it resolves.                 *)
(***************************************************************************)
BINARY_NOT_FOUND_MESSAGE == "racer not found."

RUST_SRC_PATH_NOT_FOUND_MESSAGE ==
    "rust source path not found.Please set RUST_SRC_PATH to source path of rust"

PATH_TO_RACER_BINARY == "ycmd/../third_party/racer/target/release/racer"

\* The values user_options.get( 'racer_binary_path' ) can have: the option
\* not set, set to the empty string, set to a path
BinaryOptions == {None, "", "/opt/racer"}

\* The values user_options.get( 'rust_source_path' ) can have
SourceOptions == {None, "", "/opt/rust/src"}

\* The values os.environ.get( 'RUST_SRC_PATH' ) can have
SourceEnvs == {None, "", "/usr/src/rust"}

\* The hosts a session is constructed on: the options, the environment,
\* the regular files among the binary's candidate places, those of them
\* the process may execute, the paths that exist among the source
\* locations, and the first executable 'racer' of the search path.
Hosts ==
    [racer_binary_path : BinaryOptions,
     rust_source_path  : SourceOptions,
     RUST_SRC_PATH     : SourceEnvs,
     isfile            : SUBSET {"/opt/racer", PATH_TO_RACER_BINARY},
     executable        : SUBSET {"/opt/racer", PATH_TO_RACER_BINARY},
     exists            : SUBSET {"/opt/rust/src", "/usr/src/rust"},
     on_path           : {None, "/usr/bin/racer"}]

\* Python's truth value of an option: None and '' are false
Truthy(v) == v # None /\ v # ""

\* utils.PathToFirstExistingExecutable( [ 'racer' ] ) on host h
PathToFirstExistingExecutable(h) == h.on_path

\* The binary searched for at the configured place although the built one
\* and the search path are the places to look at when it is not there.
FindRacerBinaryAnywhere(h) ==
    IF Truthy(h.racer_binary_path) /\ h.racer_binary_path \in h.isfile
    THEN h.racer_binary_path
    ELSE IF PATH_TO_RACER_BINARY \in h.isfile THEN PATH_TO_RACER_BINARY
    ELSE "racer"

_FindRacerBinary(h) ==
    IF Truthy(h.racer_binary_path)
    THEN IF h.racer_binary_path \in h.isfile
         THEN h.racer_binary_path
         ELSE None
    ELSE IF PATH_TO_RACER_BINARY \in h.isfile
    THEN PATH_TO_RACER_BINARY
    ELSE PathToFirstExistingExecutable(h)

_FindRustSource(h) ==
    IF Truthy(h.rust_source_path)
    THEN h.rust_source_path
    ELSE h.RUST_SRC_PATH

\* __init__ before its first statement
NotConstructed ==
    [pc |-> "new", exc |-> None, _binary |-> None, _rust_source |-> None]

\* __init__ left by raise RuntimeError( message )
Raised(message, binary) ==
    [pc |-> "raised", exc |-> message, _binary |-> binary,
     _rust_source |-> None]

\* __init__ left by the OSError of the launch in _StartRacer
LaunchFailed(binary, rust_source) ==
    [pc |-> "raised", exc |-> "OSError", _binary |-> binary,
     _rust_source |-> rust_source]

\* Whether the launch of binary succeeds on host h: the file found on the
\* search path is executable, a configured or built one is when the
\* process may execute it
Launchable(h, binary) == binary = h.on_path \/ binary \in h.executable

\* __init__ returned: self._binary, self._rust_source (the RUST_SRC_PATH of
\* the helper's environment)
Constructed(binary, rust_source) ==
    [pc |-> "constructed", exc |-> None, _binary |-> binary,
     _rust_source |-> rust_source]

\* A host on which construction succeeds
InstalledHost ==
    [racer_binary_path |-> None,
     rust_source_path  |-> None,
     RUST_SRC_PATH     |-> "/usr/src/rust",
     isfile            |-> {PATH_TO_RACER_BINARY},
     executable        |-> {PATH_TO_RACER_BINARY},
     exists            |-> {"/usr/src/rust"},
     on_path           |-> None]

Init ==
    /\ host = InstalledHost
    /\ ctor = Constructed(_FindRacerBinary(host), _FindRustSource(host))
    /\ lock = None
    /\ procs = <<_StartRacer(0)>>
    /\ handle = 1
    /\ files = {}
    /\ calls = 0
    /\ starts = 0
    /\ pc = [t \in Threads |-> "idle"]
    /\ op = [t \in Threads |-> None]
    /\ req = [t \in Threads |-> NoRequest]
    /\ tmpfile = [t \in Threads |-> 0]
    /\ response = [t \in Threads |-> <<>>]
    /\ eofReads = [t \in Threads |-> 0]
    /\ outcome = [t \in Threads |-> None]
    /\ result = [t \in Threads |-> <<>>]

\* The lock released on return only, and kept when the body raises.
LockKeptOnRaise(t, how) ==
    IF lock = t /\ how \in {"ok", "none"} THEN None ELSE lock

\* The lock after thread t has left its operation by return or by exception
\* (how): leaving the with block releases it, if t held it
LockOnExit(t, how) == IF lock = t THEN None ELSE lock

\* The operation of thread t ends: the lock (if t held it) is released by
\* leaving the with block, by return or by exception.
Ends(t, how, value) ==
    /\ pc' = [pc EXCEPT ![t] = "done"]
    /\ outcome' = [outcome EXCEPT ![t] = how]
    /\ result' = [result EXCEPT ![t] = value]
    /\ lock' = LockOnExit(t, how)

\* StopServer entered without the lock, the others as they are.
FirstStepStopUnlocked(o) ==
    IF o = "ServerRunning" THEN "sr_poll"
    ELSE IF o = "StopServer" THEN "stop"
    ELSE "lock"

\* Where a call starts: every operation at its `with self._lock`, but
\* ServerRunning, which is ServerIsRunning() and has none
FirstStep(o) == IF o = "ServerRunning" THEN "sr_poll" ELSE "lock"

\* The host calls an operation on thread t.
Call(t, o, r) ==
    /\ UNCHANGED ctorVars
    /\ pc[t] = "idle"
    /\ calls < MaxCalls
    /\ o \in {"StartServer", "RestartServer"} => starts < MaxStarts
    /\ calls' = calls + 1
    /\ starts' = IF o \in {"StartServer", "RestartServer"}
                 THEN starts + 1 ELSE starts
    /\ op' = [op EXCEPT ![t] = o]
    /\ req' = [req EXCEPT ![t] = r]
    /\ pc' = [pc EXCEPT ![t] = FirstStep(o)]
    /\ UNCHANGED <<lock, handle, procs, files, tmpfile, response, eofReads,
                   outcome, result>>

\* with self._lock:
Acquire(t) ==
    /\ UNCHANGED ctorVars
    /\ pc[t] = "lock"
    /\ LockIsFree
    /\ lock' = t
    /\ pc' = [pc EXCEPT ![t] = Entry(op[t])]
    /\ UNCHANGED <<handle, procs, files, calls, starts, op, req, tmpfile,
                   response, eofReads, outcome, result>>

\* ServerIsRunning as the subcommand ServerRunning: no lock is taken; the
\* poll collects the exit of a process that has exited
ServerRunning(t) ==
    /\ UNCHANGED ctorVars
    /\ pc[t] = "sr_poll"
    /\ procs' = Poll(procs, handle)
    /\ Ends(t, "ok", <<ServerIsRunning>>)
    /\ UNCHANGED <<handle, files, calls, starts, op, req, tmpfile, response,
                   eofReads>>

\* _StopServer: terminate(), nothing else; its OSError leaves the with
\* block and the operation
StopServer(t) ==
    /\ UNCHANGED ctorVars
    /\ pc[t] = "stop"
    /\ IF TerminateRaises(procs, handle)
       THEN /\ UNCHANGED procs
            /\ Ends(t, "OSError", <<>>)
       ELSE /\ procs' = Terminate(procs, handle)
            /\ Ends(t, "ok", <<>>)
    /\ UNCHANGED <<handle, files, calls, starts, op, req, tmpfile, response,
                   eofReads>>

\* _StartServer: a new process, the handle replaced; the old one is left as
\* it is.  When the launch raises, the handle is not assigned.
StartServer(t, launched) ==
    /\ UNCHANGED ctorVars
    /\ pc[t] = "start"
    /\ IF launched
       THEN /\ procs' = Append(procs, _StartRacer(0))
            /\ handle' = Len(procs) + 1
            /\ Ends(t, "ok", <<>>)
       ELSE /\ UNCHANGED <<procs, handle>>
            /\ Ends(t, "OSError", <<>>)
    /\ UNCHANGED <<files, calls, starts, op, req, tmpfile, response, eofReads>>

\* _RestartServer, first statement: terminate().  When it raises, neither
\* communicate() nor _StartRacer() is reached.
RestartTerminate(t) ==
    /\ UNCHANGED ctorVars
    /\ pc[t] = "rs_term"
    /\ IF TerminateRaises(procs, handle)
       THEN /\ UNCHANGED procs
            /\ Ends(t, "OSError", <<>>)
       ELSE /\ procs' = Terminate(procs, handle)
            /\ pc' = [pc EXCEPT ![t] = "rs_comm"]
            /\ UNCHANGED <<lock, outcome, result>>
    /\ UNCHANGED <<handle, files, calls, starts, op, req, tmpfile, response,
                   eofReads>>

\* _RestartServer, the rest: communicate() returns once the process has
\* exited, having read what was left in its pipes; then the new process is
\* started and the handle replaced.  When the launch raises, the handle
\* still refers to the old process.
RestartCommunicate(t, launched) ==
    /\ UNCHANGED ctorVars
    /\ pc[t] = "rs_comm"
    /\ ~procs[handle].alive
    /\ IF launched
       THEN /\ procs' = Append(Communicate(procs, handle),
                               _StartRacer(handle))
            /\ handle' = HandleAfterRestart
            /\ Ends(t, "ok", <<>>)
       ELSE /\ procs' = Communicate(procs, handle)
            /\ handle' = handle
            /\ Ends(t, "OSError", <<>>)
    /\ UNCHANGED <<files, calls, starts, op, req, tmpfile, response, eofReads>>

\* ComputeCandidatesInner up to the first write of _SendRequest: the
\* filename test, the scratch file, the liveness test (whose poll collects
\* the exit of a process that has exited), the write of the joined request.
\* The write fails with a broken pipe when the process exits between poll()
\* and write().
CompleteSend(t) ==
    /\ UNCHANGED ctorVars
    /\ pc[t] = "cc_send"
    /\ UNCHANGED <<handle, calls, starts, op, req, response, eofReads>>
    /\ IF req[t].filepath = <<>>
       THEN /\ Ends(t, "none", <<>>)
            /\ UNCHANGED <<procs, files, tmpfile>>
       ELSE /\ files' = files \cup {FreshTmp}
            /\ tmpfile' = [tmpfile EXCEPT ![t] = FreshTmp]
            /\ IF ~ServerIsRunning
               THEN /\ Ends(t, "not_running", <<>>)
                    /\ procs' = Poll(procs, handle)
               ELSE \/ /\ procs' = WriteRequest(procs, handle,
                              RequestLine(CmdComplete,
                                  <<Str(req[t].line_num), Str(req[t].col),
                                    req[t].filepath, TmpName(FreshTmp)>>))
                       /\ pc' = [pc EXCEPT ![t] = "cc_nl"]
                       /\ UNCHANGED <<lock, outcome, result>>
                    \/ /\ procs' = [procs EXCEPT ![handle].alive = FALSE]
                       /\ Ends(t, "IOError", <<>>)

\* _GoToDefinition up to the first write of _SendRequest
GoToSend(t) ==
    /\ UNCHANGED ctorVars
    /\ pc[t] = "gt_send"
    /\ UNCHANGED <<handle, files, calls, starts, op, req, tmpfile, response,
                   eofReads>>
    /\ IF ~ServerIsRunning
       THEN /\ Ends(t, "not_running", <<>>)
            /\ procs' = Poll(procs, handle)
       ELSE \/ /\ procs' = WriteRequest(procs, handle,
                      RequestLine(CmdFindDefinition,
                          <<Str(req[t].line_num), Str(req[t].col),
                            req[t].filepath>>))
               /\ pc' = [pc EXCEPT ![t] = "gt_nl"]
               /\ UNCHANGED <<lock, outcome, result>>
            \/ /\ procs' = [procs EXCEPT ![handle].alive = FALSE]
               /\ Ends(t, "IOError", <<>>)

\* The second write of _SendRequest: the newline.  It fails with a broken
\* pipe when the process has exited since the first write.
SendNewline(t) ==
    /\ UNCHANGED ctorVars
    /\ pc[t] \in Sending
    /\ UNCHANGED <<handle, files, calls, starts, op, req, tmpfile, response,
                   eofReads>>
    /\ IF procs[handle].alive
       THEN /\ procs' = WriteRequest(procs, handle, Newline)
            /\ pc' = [pc EXCEPT ![t] = IF pc[t] = "cc_nl"
                                       THEN "cc_read" ELSE "gt_read"]
            /\ UNCHANGED <<lock, outcome, result>>
       ELSE /\ UNCHANGED procs
            /\ Ends(t, "IOError", <<>>)

\* What follows _ReadResponse in ComputeCandidatesInner: unlink, then the
\* decoding loop
CompleteFinish(t, lines) ==
    /\ files' = files \ {tmpfile[t]}
    /\ Ends(t, CompleteLoop(lines).outcome, CompleteLoop(lines).value)

\* What follows _ReadResponse in _GoToDefinition: the decoding loop
GoToFinish(t, lines) ==
    /\ files' = files
    /\ Ends(t, GoToLoop(lines).outcome, GoToLoop(lines).value)

\* The loop left at the first match line as well, the rest not read.
ResponseEndsAtMatch(output) ==
    output = EndLine \/ StartsWith(output, MatchPrefix)

\* if output == 'END': break
ResponseEnds(output) == output = EndLine

\* One turn of the loop of _ReadResponse: readline() blocks while the pipe
\* is empty and the process runs, and returns '' at end-of-stream; on 'END'
\* the loop ends and the caller goes on with the response.
ReadLine(t) ==
    /\ UNCHANGED ctorVars
    /\ pc[t] \in Reading
    /\ procs[handle].stdout # <<>> \/ ~procs[handle].alive
    /\ LET eof    == procs[handle].stdout = <<>>
           raw    == IF eof THEN <<>> ELSE Head(procs[handle].stdout)
           output == Strip(raw)
       IN  /\ eof => eofReads[t] < MaxEofReads
           /\ procs' = IF eof THEN procs
                       ELSE [procs EXCEPT ![handle].stdout = Tail(@)]
           /\ eofReads' = [eofReads EXCEPT ![t] = IF eof THEN @ + 1 ELSE @]
           /\ IF ResponseEnds(output)
              THEN /\ response' = response
                   /\ IF pc[t] = "cc_read"
                      THEN CompleteFinish(t, response[t])
                      ELSE GoToFinish(t, response[t])
              ELSE /\ response' = [response EXCEPT ![t] = Append(@, output)]
                   /\ UNCHANGED <<lock, files, pc, outcome, result>>
    /\ UNCHANGED <<handle, calls, starts, op, req, tmpfile>>

\* The host has taken the result of thread t's operation.
Return(t) ==
    /\ UNCHANGED ctorVars
    /\ pc[t] = "done"
    /\ pc' = [pc EXCEPT ![t] = "idle"]
    /\ op' = [op EXCEPT ![t] = None]
    /\ req' = [req EXCEPT ![t] = NoRequest]
    /\ tmpfile' = [tmpfile EXCEPT ![t] = 0]
    /\ response' = [response EXCEPT ![t] = <<>>]
    /\ eofReads' = [eofReads EXCEPT ![t] = 0]
    /\ outcome' = [outcome EXCEPT ![t] = None]
    /\ result' = [result EXCEPT ![t] = <<>>]
    /\ UNCHANGED <<lock, handle, procs, files, calls, starts>>

(***************************************************************************)
(* The helper processes (the environment).                                 *)
(***************************************************************************)
\* Process p answers its oldest request with batch b and END.
HelperAnswer(p, b) ==
    /\ UNCHANGED ctorVars
    /\ p \in DOMAIN procs
    /\ procs[p].alive /\ ~procs[p].hung
    /\ procs[p].stdin # <<>> /\ ~Unterminated(Head(procs[p].stdin))
    /\ procs' = [procs EXCEPT ![p].stdin = Tail(@),
                              ![p].stdout = @ \o b \o <<LineEnd>>]
    /\ UNCHANGED <<lock, handle, files, calls, starts, threadVars>>

\* Process p takes its oldest request, prints b and never prints END.
HelperStall(p, b) ==
    /\ UNCHANGED ctorVars
    /\ p \in DOMAIN procs
    /\ procs[p].alive /\ ~procs[p].hung
    /\ procs[p].stdin # <<>> /\ ~Unterminated(Head(procs[p].stdin))
    /\ procs' = [procs EXCEPT ![p].stdin = Tail(@),
                              ![p].stdout = @ \o b,
                              ![p].hung = TRUE]
    /\ UNCHANGED <<lock, handle, files, calls, starts, threadVars>>

\* Process p exits: on its own (a crash), or on the termination signal.
HelperExit(p) ==
    /\ UNCHANGED ctorVars
    /\ p \in DOMAIN procs
    /\ procs[p].alive
    /\ procs' = [procs EXCEPT ![p].alive = FALSE]
    /\ UNCHANGED <<lock, handle, files, calls, starts, threadVars>>

(***************************************************************************)
(* Construction as a state machine of its own: any host, one __init__.     *)
(***************************************************************************)
InitNew ==
    /\ host \in Hosts
    /\ ctor = NotConstructed
    /\ lock = None
    /\ procs = <<>>
    /\ handle = 0
    /\ files = {}
    /\ calls = 0
    /\ starts = 0
    /\ pc = [t \in Threads |-> "idle"]
    /\ op = [t \in Threads |-> None]
    /\ req = [t \in Threads |-> NoRequest]
    /\ tmpfile = [t \in Threads |-> 0]
    /\ response = [t \in Threads |-> <<>>]
    /\ eofReads = [t \in Threads |-> 0]
    /\ outcome = [t \in Threads |-> None]
    /\ result = [t \in Threads |-> <<>>]

\* __init__: the binary, else raise; the source path, else raise; the
\* environment; _StartServer (the lock taken and released in it), out of
\* which the OSError of a failed launch leaves __init__ as well.
__init__ ==
    /\ ctor.pc = "new"
    /\ LET binary      == _FindRacerBinary(host)
           rust_source == _FindRustSource(host)
       IN  IF binary = None
           THEN /\ ctor' = Raised(BINARY_NOT_FOUND_MESSAGE, binary)
                /\ UNCHANGED <<procs, handle>>
           ELSE IF rust_source = None
           THEN /\ ctor' = Raised(RUST_SRC_PATH_NOT_FOUND_MESSAGE, binary)
                /\ UNCHANGED <<procs, handle>>
           ELSE IF ~Launchable(host, binary)
           THEN /\ ctor' = LaunchFailed(binary, rust_source)
                /\ UNCHANGED <<procs, handle>>
           ELSE /\ ctor' = Constructed(binary, rust_source)
                /\ procs' = Append(procs, _StartRacer(0))
                /\ handle' = Len(procs) + 1
    /\ UNCHANGED <<lock, host, files, calls, starts, threadVars>>

InitSpec == InitNew /\ [][__init__]_vars

ThreadStep(t) ==
    \/ Acquire(t)
    \/ ServerRunning(t)
    \/ StopServer(t)
    \/ \E launched \in Launches : StartServer(t, launched)
    \/ RestartTerminate(t)
    \/ \E launched \in Launches : RestartCommunicate(t, launched)
    \/ CompleteSend(t)
    \/ GoToSend(t)
    \/ SendNewline(t)
    \/ ReadLine(t)
    \/ Return(t)

Next ==
    \/ \E t \in Threads, o \in Ops : \E r \in RequestsOf(o) : Call(t, o, r)
    \/ \E t \in Threads : ThreadStep(t)
    \/ \E p \in 1..(MaxStarts + 1) : \E b \in Batches : HelperAnswer(p, b)
    \/ \E p \in 1..(MaxStarts + 1) : \E b \in PartialBatches : HelperStall(p, b)
    \/ \E p \in 1..(MaxStarts + 1) : HelperExit(p)

Spec == Init /\ [][Next]_vars

\* Scheduling: a thread that can take a step of its operation eventually
\* takes it, and a process that was sent the termination signal exits.
SignalledExit(p) ==
    /\ p \in DOMAIN procs
    /\ procs[p].signalled
    /\ HelperExit(p)

Fairness ==
    /\ \A t \in Threads : WF_vars(ThreadStep(t))
    /\ \A p \in 1..(MaxStarts + 1) : WF_vars(SignalledExit(p))

LiveSpec == Init /\ [][Next]_vars /\ Fairness

(***************************************************************************)
(* The protocol as section 6 of the specification words it, stated without *)
(* the decoder: the claims below compare the code's results against it.    *)
(***************************************************************************)
HasMatchPrefix(line) ==
    /\ Len(line) >= 6
    /\ \A i \in 1..6 : line[i] = MatchPrefix[i]

\* The text after the prefix
AfterPrefix(line) == [i \in 1..(Len(line) - 6) |-> line[i + 6]]

CommaPositions(s) == {i \in 1..Len(s) : s[i] = ","}

\* The position of the n-th comma of s (n in 1..5), and the two ends
NthComma(s, n) ==
    IF n = 0 THEN 0
    ELSE IF n = 6 THEN Len(s) + 1
    ELSE CHOOSE i \in CommaPositions(s) :
             Cardinality({j \in CommaPositions(s) : j <= i}) = n

\* Field k (1..6) of a match line: the text between comma k-1 and comma k,
\* the sixth field running to the end of the line
Field(line, k) ==
    LET s == AfterPrefix(line)
        a == NthComma(s, k - 1)
        b == NthComma(s, k)
    IN  [i \in 1..(b - a - 1) |-> s[a + i]]

HasSixFields(line) ==
    /\ HasMatchPrefix(line)
    /\ Cardinality(CommaPositions(AfterPrefix(line))) >= 5

WellFormed(line) ==
    /\ HasSixFields(line)
    /\ IntOk(Field(line, 2))
    /\ IntOk(Field(line, 3))

\* The location a well-formed match line stands for
LocationOf(line) ==
    [line_num   |-> IntVal(Field(line, 2)),
     column_num |-> IntVal(Field(line, 3)) + 1,
     filepath   |-> Field(line, 4)]

\* The completion item a well-formed match line stands for
ItemOf(line) ==
    [insertion_text  |-> Field(line, 1),
     menu_text       |-> Field(line, 1),
     kind            |-> Field(line, 5),
     extra_menu_info |-> Field(line, 6)]

\* Index of the first line of a batch with the prefix, 0 when there is none
FirstMatchLine(lines) ==
    IF \E i \in 1..Len(lines) : HasMatchPrefix(lines[i])
    THEN CHOOSE i \in 1..Len(lines) :
             /\ HasMatchPrefix(lines[i])
             /\ \A j \in 1..(i - 1) : ~HasMatchPrefix(lines[j])
    ELSE 0

\* The well-formed lines among those the helpers of the model print, with
\* the six fields, the location and the item each stands for
WellFormedLines == {line \in ReadableLines : WellFormed(line)}

FieldsOfLine ==
    [line \in WellFormedLines |-> [k \in 1..6 |-> Field(line, k)]]

LocationOfLine == [line \in WellFormedLines |-> LocationOf(line)]

ItemOfLine == [line \in WellFormedLines |-> ItemOf(line)]

RECURSIVE ItemsOf(_)
ItemsOf(lines) ==
    IF lines = <<>> THEN <<>>
    ELSE IF Head(lines) \in WellFormedLines
    THEN <<ItemOfLine[Head(lines)]>> \o ItemsOf(Tail(lines))
    ELSE ItemsOf(Tail(lines))

\* Thread t has ended a Complete or GoToDefinition whose response was read
\* up to END.
BatchRead(t) ==
    /\ pc[t] = "done"
    /\ op[t] \in {"Complete"} \cup GoToOps
    /\ outcome[t] \notin {"none", "not_running", "IOError"}

InExchange(t) == pc[t] \in Sending \cup Reading

InLifecycleBody(t) == pc[t] \in {"start", "stop", "rs_term", "rs_comm"}

(***************************************************************************)
(* The claims.                                                             *)
(***************************************************************************)

\* C1: at most one thread is inside a request/response exchange (command
\* written, END not yet read), and while a thread is inside one no other
\* thread is inside the body of StartServer, StopServer or RestartServer, so
\* none of their steps (terminate, drain, handle replacement) can be taken.
C1_SingleExchange ==
    \A t \in Threads :
        InExchange(t) =>
            \A u \in Threads \ {t} : ~InExchange(u) /\ ~InLifecycleBody(u)

\* C1 witness: an exchange is in flight while another thread has called a
\* lifecycle operation and waits for the lock.
C1_Witness ==
    \E t \in Threads : \E u \in Threads \ {t} :
        /\ InExchange(t)
        /\ pc[u] = "lock"
        /\ op[u] \in {"StartServer", "StopServer", "RestartServer"}

\* C2 (as claimed): once a Complete that created a scratch file has ended,
\* by return or by exception, that file is not on disk.
C2_ScratchGone ==
    \A t \in Threads :
        (pc[t] = "done" /\ op[t] = "Complete" /\ tmpfile[t] # 0)
            => tmpfile[t] \notin files

\* The step writes nothing to the input pipe of any helper
NothingWritten ==
    /\ Len(procs') = Len(procs)
    /\ \A p \in DOMAIN procs : procs'[p].stdin = procs[p].stdin

\* The step leaves the handle, the helpers, their liveness and their pipes
\* as they are, but for the exit of a helper that the step has collected
OnlyExitCollected ==
    /\ handle' = handle
    /\ Len(procs') = Len(procs)
    /\ \A p \in DOMAIN procs :
          /\ [procs'[p] EXCEPT !.reaped = procs[p].reaped] = procs[p]
          /\ procs'[p].reaped # procs[p].reaped
                => (p = handle /\ ~procs[p].alive)

\* C3 (as claimed): a Complete (of a request that names a file) made while
\* the helper is not alive ends with 'server not running', writes nothing to
\* the pipe and creates no scratch file.
C3_NotRunningNoIO ==
    [][\A t \in Threads :
          (/\ pc[t] = "cc_send" /\ pc'[t] # "cc_send"
           /\ req[t].filepath # <<>>
           /\ ~ServerIsRunning)
              => /\ outcome'[t] = "not_running"
                 /\ NothingWritten
                 /\ files' = files
                 /\ tmpfile'[t] = 0]_vars

\* C4 (as claimed): a call whose read hit end-of-stream before END has
\* stopped reading and ended with the 'server not running' error.
C4_EofIsLivenessError ==
    \A t \in Threads :
        eofReads[t] > 0 => (pc[t] = "done" /\ outcome[t] = "not_running")

\* C5 (as claimed): when RestartServer ends, whatever the state of the old
\* handle (the launch of the new helper itself not having failed), the
\* handle refers to a new running process with empty pipes, the old one has
\* exited and the lock is free; a Complete that then reaches its liveness
\* test with that process running writes its command and waits for the
\* answer; and when the answer has been read it returns the items of the
\* batch.
C5_RestartRecovers ==
    [][\A t \in Threads :
          /\ (/\ pc[t] \in {"rs_term", "rs_comm"} /\ pc'[t] = "done"
              /\ ~(pc[t] = "rs_comm" /\ outcome'[t] = "OSError"))
                => /\ ServerIsRunning'
                   /\ handle' # handle
                   /\ procs'[handle'].stdin = <<>>
                   /\ procs'[handle'].stdout = <<>>
                   /\ ~procs'[handle].alive
                   /\ lock' = None
          /\ (/\ pc[t] = "cc_send" /\ pc'[t] # "cc_send"
              /\ procs[handle].replaced # 0
              /\ req[t].filepath # <<>>
              /\ procs'[handle].alive)
                => /\ pc'[t] = "cc_nl"
                   /\ Len(procs'[handle].stdin) = Len(procs[handle].stdin) + 1
          /\ (/\ pc[t] = "cc_nl" /\ pc'[t] # "cc_nl"
              /\ procs[handle].replaced # 0
              /\ procs[handle].alive)
                => /\ pc'[t] = "cc_read"
                   /\ ~Unterminated(procs'[handle].stdin[Len(procs'[handle].stdin)])
          /\ (/\ pc[t] = "cc_read" /\ pc'[t] = "done"
              /\ procs[handle].replaced # 0
              /\ \A i \in 1..Len(response[t]) :
                     HasMatchPrefix(response[t][i]) => response[t][i] \in WellFormedLines)
                => /\ outcome'[t] = "ok"
                   /\ result'[t] = ItemsOf(response[t])]_vars

\* C6 (as claimed): when an exchange hangs on a helper that never sends END
\* and another thread has called RestartServer, that RestartServer eventually
\* completes: the hung helper has been terminated and a fresh one installed.
C6_RestartUnblocks ==
    (/\ procs[handle].hung
     /\ \E t \in Threads : InExchange(t)
     /\ \E u \in Threads : op[u] = "RestartServer" /\ pc[u] = "lock")
      ~> (\E u \in Threads : op[u] = "RestartServer" /\ pc[u] = "done")

\* C7: a GoToDefinition that has read a batch whose first MATCH line is a
\* well-formed match returns the location of that line (line unchanged,
\* column plus one, filepath), whatever precedes or follows it; and whenever
\* it returns a location, it is the one of the first MATCH line.
C7_FirstMatchLocation ==
    \A t \in Threads :
        (BatchRead(t) /\ op[t] = "GoToDefinition") =>
            LET i == FirstMatchLine(response[t])
            IN  /\ (i # 0 /\ response[t][i] \in WellFormedLines)
                      => /\ outcome[t] = "ok"
                         /\ result[t] = <<LocationOfLine[response[t][i]]>>
                /\ outcome[t] = "ok"
                      => /\ i # 0
                         /\ response[t][i] \in WellFormedLines
                         /\ result[t] = <<LocationOfLine[response[t][i]]>>

\* C7 witness: a location was returned from a batch with a non-matching line
\* before the first match and another match after it.
C7_Witness ==
    \E t \in Threads :
        /\ BatchRead(t) /\ op[t] = "GoToDefinition" /\ outcome[t] = "ok"
        /\ Len(response[t]) = 3
        /\ FirstMatchLine(response[t]) = 2
        /\ HasMatchPrefix(response[t][3])
        /\ result[t][1].line_num = 2
        /\ result[t][1].column_num = 4

\* C8: after a batch without any MATCH line, GoToDefinition has failed with
\* 'definition not found' and Complete has returned the empty sequence, and
\* the lock is free; the step that ends the call leaves the handle and the
\* helper's liveness as they were and no line of the batch in the pipe.
C8_NoMatchBatch ==
    /\ [](\A t \in Threads :
            (BatchRead(t) /\ FirstMatchLine(response[t]) = 0) =>
                /\ op[t] = "GoToDefinition" => outcome[t] = "not_found"
                /\ op[t] = "Complete" => (outcome[t] = "ok" /\ result[t] = <<>>)
                /\ lock # t)
    /\ [][\A t \in Threads :
            (pc[t] \in Reading /\ pc'[t] = "done"
                 /\ FirstMatchLine(response[t]) = 0) =>
                /\ handle' = handle
                /\ procs'[handle].alive = procs[handle].alive
                /\ procs'[handle].signalled = procs[handle].signalled
                /\ lock' = None]_vars

\* C8 witness: GoToDefinition failed with 'definition not found' on a batch
\* of helper chatter only, and the helper is still running.
C8_Witness ==
    \E t \in Threads :
        /\ BatchRead(t) /\ op[t] = "GoToDefinition"
        /\ outcome[t] = "not_found"
        /\ response[t] # <<>>
        /\ ServerIsRunning

\* C9 (as claimed): decoding never raises: a call that has read its batch
\* did not end with an exception of the decoder, and Complete has returned
\* the items of the well-formed MATCH lines, the malformed ones skipped.
C9_DecodeTotal ==
    \A t \in Threads :
        BatchRead(t) =>
            /\ outcome[t] \notin {"IndexError", "ValueError"}
            /\ op[t] = "Complete" => result[t] = ItemsOf(response[t])

\* C10: every line read that has the prefix, five commas or more after it
\* and numeric second and third fields is decoded into the fields cut at the
\* first five commas, the snippet being all the text after the fifth comma;
\* Complete returns that snippet as the item's detail text.
C10_SplitAtFiveCommas ==
    \A t \in Threads :
        /\ \A i \in 1..Len(response[t]) :
              response[t][i] \in WellFormedLines =>
                  LET parsed == DecodedLines[response[t][i]]
                  IN  /\ parsed.ret = "match"
                      /\ parsed.name = FieldsOfLine[response[t][i]][1]
                      /\ parsed.line_num = IntVal(FieldsOfLine[response[t][i]][2])
                      /\ parsed.column_num = IntVal(FieldsOfLine[response[t][i]][3]) + 1
                      /\ parsed.filepath = FieldsOfLine[response[t][i]][4]
                      /\ parsed.kind = FieldsOfLine[response[t][i]][5]
                      /\ parsed.snippet = FieldsOfLine[response[t][i]][6]
        /\ (BatchRead(t) /\ op[t] = "Complete" /\ outcome[t] = "ok")
              => result[t] = ItemsOf(response[t])

\* C10 witness: Complete returned an item whose detail text is the snippet
\* 'foo(a, b)' of the line 'MATCH b,2,3,/g,st,foo(a, b)'.
C10_Witness ==
    \E t \in Threads :
        /\ BatchRead(t) /\ op[t] = "Complete" /\ outcome[t] = "ok"
        /\ Len(result[t]) = 2
        /\ result[t][1].extra_menu_info = <<"f", "o", "o", "(", "a", ",", " ", "b", ")">>
        /\ result[t][1].insertion_text = <<"b">>
        /\ result[t][1].kind = <<"s", "t">>


(***************************************************************************)
(* Construction as sections 6 and 7 of the specification word it, stated  *)
(* without the two finders.                                                *)
(***************************************************************************)
\* No candidate place of the binary holds it
NoBinaryAnywhere(h) ==
    /\ ~(Truthy(h.racer_binary_path) /\ h.racer_binary_path \in h.isfile)
    /\ PATH_TO_RACER_BINARY \notin h.isfile
    /\ h.on_path = None

\* The source path is neither configured nor present in the environment
SourceUnresolved(h) ==
    /\ ~Truthy(h.rust_source_path)
    /\ h.RUST_SRC_PATH = None

\* C12: once __init__ has ended, it has raised the configuration error, no
\* helper was launched and there is no handle whenever the binary is in none
\* of its places ('racer not found.') or the source path is neither
\* configured nor in the environment ('rust source path not found...'); a
\* failed construction never leaves a helper; and a helper was launched only
\* with a binary that exists and a source path that was resolved.
C12_ConfigurationError ==
    ctor.pc # "new" =>
        /\ NoBinaryAnywhere(host)
              => /\ ctor.pc = "raised"
                 /\ ctor.exc = BINARY_NOT_FOUND_MESSAGE
        /\ (~NoBinaryAnywhere(host) /\ SourceUnresolved(host))
              => /\ ctor.pc = "raised"
                 /\ ctor.exc \in {BINARY_NOT_FOUND_MESSAGE,
                                  RUST_SRC_PATH_NOT_FOUND_MESSAGE}
        /\ ctor.pc = "raised" => (procs = <<>> /\ handle = 0)
        /\ procs # <<>>
              => /\ ctor.pc = "constructed"
                 /\ Len(procs) = 1 /\ handle = 1
                 /\ ctor._binary \in host.isfile \cup ({host.on_path} \ {None})
                 /\ ~SourceUnresolved(host)
                 /\ ctor._rust_source \in
                        {host.rust_source_path, host.RUST_SRC_PATH} \ {None}

\* C12 witness: the binary was found on the search path, the source path is
\* neither configured nor in the environment, and __init__ has raised
\* without a helper.
C12_Witness ==
    /\ ctor.pc = "raised"
    /\ ctor.exc = RUST_SRC_PATH_NOT_FOUND_MESSAGE
    /\ ctor._binary = "/usr/bin/racer"
    /\ SourceUnresolved(host)
    /\ procs = <<>>

\* C13 (as claimed): a helper is started only with a source path that
\* exists: when the resolved path names nothing that exists, __init__ has
\* failed and no helper was started.
C13_SourceMustExist ==
    (ctor.pc = "constructed" \/ procs # <<>>)
        => ctor._rust_source \in host.exists


(***************************************************************************)
(* The request line as section 4.1 of the specification words it, stated   *)
(* without the join and without str.                                       *)
(***************************************************************************)
DecimalDigits == <<"0", "1", "2", "3", "4", "5", "6", "7", "8", "9">>

\* The decimal text of a number below 100
Decimal(n) ==
    IF n < 10 THEN <<DecimalDigits[n + 1]>>
    ELSE <<DecimalDigits[(n \div 10) + 1], DecimalDigits[(n % 10) + 1]>>

\* 'complete <line> <start-column> <filepath> <scratch path>'
CompleteText(r, n) ==
    <<"c", "o", "m", "p", "l", "e", "t", "e", " ">>
        \o Decimal(r.line_num) \o <<" ">> \o Decimal(r.col) \o <<" ">>
        \o r.filepath \o <<" ">> \o TmpName(n)

\* 'find-definition <line> <column> <filepath>'
FindDefinitionText(r) ==
    <<"f", "i", "n", "d", "-", "d", "e", "f", "i", "n", "i", "t", "i", "o", "n",
      " ">>
        \o Decimal(r.line_num) \o <<" ">> \o Decimal(r.col) \o <<" ">>
        \o r.filepath

\* The request text of the call thread t is in
ExpectedText(o, r, n) ==
    IF o = "Complete" THEN CompleteText(r, n) ELSE FindDefinitionText(r)

\* Every request text a call of the model can send
ExpectedTexts ==
    {CompleteText(r, n) : r \in Requests, n \in 1..(MaxCalls + 1)}
        \cup {FindDefinitionText(r) : r \in Requests}

\* C11: the first write of a request puts the command and the stringified
\* arguments, in the caller's order and joined by single spaces, after the
\* lines already in the pipe, and the second write ends that line with one
\* newline and changes nothing else: 'complete' with line, start column,
\* filepath and scratch path, 'find-definition' with line, column and
\* filepath.  Every line in a helper's input is one whole request ended by
\* its newline, except a last line still being written (or left by a write
\* that failed on an exited helper), which is one request's text: no line
\* holds bytes of two requests.
C11_RequestLine ==
    /\ [](\A p \in DOMAIN procs : \A i \in DOMAIN procs[p].stdin :
            LET l == procs[p].stdin[i]
            IN  \/ \E x \in ExpectedTexts : l = x \o <<"\n">>
                \/ /\ i = Len(procs[p].stdin)
                   /\ l \in ExpectedTexts
                   /\ \/ ~procs[p].alive
                      \/ \E t \in Threads :
                            /\ pc[t] \in Sending /\ p = handle
                            /\ l = ExpectedText(op[t], req[t], tmpfile[t]))
    /\ [][\A t \in Threads :
            LET old == procs[handle].stdin
                new == procs'[handle].stdin
            IN  /\ (pc[t] \in {"cc_send", "gt_send"} /\ pc'[t] \in Sending)
                      => /\ Len(new) = Len(old) + 1
                         /\ \A i \in 1..Len(old) : new[i] = old[i]
                         /\ new[Len(new)] =
                                ExpectedText(op[t], req[t], tmpfile'[t])
                /\ (pc[t] \in Sending /\ pc'[t] \in Reading)
                      => /\ Len(new) = Len(old)
                         /\ \A i \in 1..(Len(old) - 1) : new[i] = old[i]
                         /\ new[Len(new)] =
                                ExpectedText(op[t], req[t], tmpfile[t])
                                    \o <<"\n">>]_vars

\* C11 witness: 'complete 12 2 /f /tmp/tmp1' and its newline are the only
\* bytes in the helper's input while a GoToDefinition of another thread
\* waits for the lock.
C11_Witness ==
    \E t \in Threads : \E u \in Threads \ {t} :
        /\ pc[t] = "cc_read"
        /\ procs[handle].stdin =
              << <<"c", "o", "m", "p", "l", "e", "t", "e", " ", "1", "2", " ",
                   "2", " ", "/", "f", " ", "/", "t", "m", "p", "/", "t", "m",
                   "p", "1", "\n">> >>
        /\ pc[u] = "lock" /\ op[u] = "GoToDefinition"


\* C14: GoToDefinition, GoToDeclaration and GoTo are one operation.  A call
\* of any of the three is, inside its body, only ever at the steps of
\* _GoToDefinition; the text it has written is 'find-definition' with its
\* line, column and filepath; two calls of different subcommands that were
\* made with the same request and have read the same lines have ended with
\* the same result or the same error; and each of the three has failed with
\* 'definition not found' on a batch without a match and returned the
\* location of the first match when that line is well formed.
C14_GoToAliases ==
    \A t \in Threads :
        op[t] \in GoToOps =>
            /\ pc[t] \in {"idle", "lock", "gt_send", "gt_nl", "gt_read", "done"}
            /\ tmpfile[t] = 0
            /\ pc[t] \in Sending =>
                  procs[handle].stdin[Len(procs[handle].stdin)]
                      = FindDefinitionText(req[t])
            /\ BatchRead(t) =>
                  LET i == FirstMatchLine(response[t])
                  IN  /\ i = 0 => outcome[t] = "not_found"
                      /\ (i # 0 /\ response[t][i] \in WellFormedLines)
                            => /\ outcome[t] = "ok"
                               /\ result[t] = <<LocationOfLine[response[t][i]]>>
            /\ \A u \in Threads \ {t} :
                  (/\ op[u] \in GoToOps /\ op[u] # op[t]
                   /\ BatchRead(t) /\ BatchRead(u)
                   /\ req[u] = req[t] /\ response[u] = response[t])
                      => (outcome[u] = outcome[t] /\ result[u] = result[t])

\* C14 witness: a GoTo and a GoToDeclaration made with the same request
\* have read the same batch of three lines and returned the same location.
C14_Witness ==
    \E t \in Threads : \E u \in Threads \ {t} :
        /\ op[t] = "GoTo" /\ op[u] = "GoToDeclaration"
        /\ BatchRead(t) /\ BatchRead(u)
        /\ req[u] = req[t] /\ response[u] = response[t]
        /\ Len(response[t]) = 3
        /\ outcome[t] = "ok" /\ outcome[u] = "ok"
        /\ result[t] = result[u]
        /\ result[t][1].line_num = 2


\* Thread t takes a step of the body of its operation
BodyStep(t) ==
    /\ pc[t] \notin {"idle", "lock", "done"}
    /\ <<pc'[t], response'[t], eofReads'[t]>> # <<pc[t], response[t], eofReads[t]>>

\* C15 (as claimed): every step of the body of each of the six operations,
\* ServerRunning included, is taken by a thread that holds the lock.
C15_AllOpsLocked ==
    [][\A t \in Threads : BodyStep(t) => lock = t]_vars

\* C15 (amended): Complete, the three go-to subcommands, StartServer,
\* StopServer and RestartServer take the lock only when it is free and hold
\* it at every step of their body; ServerRunning takes no lock: its one step
\* reads the liveness of the current handle, whoever holds the lock, and
\* changes neither the lock nor the handle nor any helper's liveness or
\* pipes (it only collects the exit of the helper when that has exited).
C15_AllButServerRunningLocked ==
    /\ [](\A t \in Threads :
            pc[t] \notin {"idle", "lock", "done", "sr_poll"}
                => (lock = t /\ op[t] # "ServerRunning"))
    /\ [][\A t \in Threads :
            /\ (pc[t] = "lock" /\ pc'[t] # "lock")
                  => (lock = None /\ lock' = t)
            /\ BodyStep(t) =>
                  IF op[t] = "ServerRunning"
                  THEN /\ lock # t /\ lock' = lock
                       /\ OnlyExitCollected
                       /\ outcome'[t] = "ok"
                       /\ result'[t] = <<procs[handle].alive>>
                  ELSE lock = t]_vars

\* C15 witness: with two calls made in all, a ServerRunning has returned
\* False while the RestartServer of another thread is between terminate()
\* and the exit of the process it signalled: the poll was made while that
\* thread held the lock.
C15_Witness ==
    \E t \in Threads : \E u \in Threads \ {t} :
        /\ calls = 2
        /\ op[t] = "ServerRunning" /\ pc[t] = "done" /\ result[t] = <<FALSE>>
        /\ op[u] = "RestartServer" /\ pc[u] = "rs_comm" /\ lock = u
        /\ procs[handle].signalled


\* The processes launched by the session that are running and were never
\* sent the termination signal, in the given list of processes
RunningUnsignalled(ps) == {p \in DOMAIN ps : ps[p].alive /\ ~ps[p].signalled}

\* The order of RestartServer: the signal is sent to the current process
\* first, with the lock held and kept (or the signal cannot be sent, and
\* RestartServer ends there by raising, nothing launched); the new process
\* is launched and the handle replaced in the last step only, when the old
\* process has exited, with its output drained, and the lock is released by
\* that step (when the launch fails, nothing is launched and the handle is
\* kept).
RestartInOrder(t) ==
    /\ (pc[t] = "rs_term" /\ pc'[t] # "rs_term")
          => /\ lock = t
             /\ handle' = handle /\ Len(procs') = Len(procs)
             /\ IF pc'[t] = "rs_comm"
                THEN /\ lock' = t
                     /\ procs[handle].alive => procs'[handle].signalled
                ELSE /\ pc'[t] = "done" /\ outcome'[t] = "OSError"
                     /\ lock' = None
                     /\ procs' = procs
    /\ (pc[t] = "rs_comm" /\ pc'[t] # "rs_comm")
          => /\ lock = t /\ lock' = None
             /\ ~procs[handle].alive
             /\ procs'[handle].stdout = <<>>
             /\ IF outcome'[t] = "ok"
                THEN /\ Len(procs') = Len(procs) + 1
                     /\ handle' = Len(procs')
                     /\ procs'[handle'].alive
                ELSE /\ outcome'[t] = "OSError"
                     /\ Len(procs') = Len(procs)
                     /\ handle' = handle

\* C16 (as claimed): RestartServer takes its steps in that order under one
\* lock hold, and from its first step to its return there are never two
\* processes of the session that both run without having been sent the
\* termination signal.
C16_RestartOrder ==
    /\ [](\A t \in Threads :
            pc[t] \in {"rs_term", "rs_comm"}
                => Cardinality(RunningUnsignalled(procs)) <= 1)
    /\ [][\A t \in Threads :
            /\ RestartInOrder(t)
            /\ (pc[t] = "rs_comm" /\ pc'[t] # "rs_comm")
                  => Cardinality(RunningUnsignalled(procs')) <= 1]_vars

\* The order of RestartServer alone, at every step of every RestartServer
RestartAlwaysInOrder == [][\A t \in Threads : RestartInOrder(t)]_vars

\* C17 (as claimed): every process the session has launched that runs and
\* was never sent the termination signal is the one the handle refers to.
C17_OnlyHandleUnterminated ==
    \A p \in RunningUnsignalled(procs) : p = handle


\* The process of the current handle was sent the signal by a StopServer
\* that has returned, and no StartServer or RestartServer was called since:
\* seen by a thread that holds the lock, no RestartServer is in its body.
StoppedFor(t) ==
    /\ lock = t
    /\ procs[handle].signalled
    /\ \A u \in Threads :
          op[u] \in {"StartServer", "RestartServer"} => pc[u] = "done"

\* C18 (as claimed): a Complete (of a named buffer) or a go-to that reaches
\* its liveness test after StopServer has returned and before the next
\* StartServer or RestartServer fails with 'server not running' and writes
\* nothing to the pipe.
C18_StoppedMeansNotRunning ==
    [][\A t \in Threads :
          (/\ pc[t] \in {"cc_send", "gt_send"} /\ pc'[t] # pc[t]
           /\ req[t].filepath # <<>>
           /\ StoppedFor(t))
              => /\ outcome'[t] = "not_running"
                 /\ NothingWritten]_vars


\* The ways an operation ends by raising
Raises ==
    {"not_running", "IOError", "OSError", "not_found", "IndexError",
     "ValueError"}

\* C19: a thread whose operation has ended, by return or by raising, does
\* not hold the lock; the step that ends a Complete, a go-to, a StartServer,
\* a StopServer or a RestartServer is taken with the lock held and leaves it
\* free; and whenever the lock is held, its holder is inside the body of an
\* operation, so no call waits for an operation that has finished.
C19_LockReleased ==
    /\ [](/\ \A t \in Threads : pc[t] \in {"idle", "lock", "done"} => lock # t
          /\ lock \in Threads \cup {None})
    /\ [][\A t \in Threads :
            (pc[t] # "done" /\ pc'[t] = "done" /\ op[t] # "ServerRunning")
                => (lock = t /\ lock' = None
                    /\ outcome'[t] \in {"ok", "none"} \cup Raises)]_vars

\* C19 witness: a go-to has ended by a decode failure (ValueError) and the
\* other thread has taken the lock after it.
C19_Witness ==
    \E t \in Threads : \E u \in Threads \ {t} :
        /\ pc[t] = "done" /\ op[t] \in GoToOps /\ outcome[t] = "ValueError"
        /\ lock = u /\ pc[u] \in Reading


(***************************************************************************)
(* Attribution of responses.                                               *)
(***************************************************************************)
\* The lines of the pipe as readline().strip() gives them
StripAll(lines) == [i \in DOMAIN lines |-> Strip(lines[i])]

\* One batch and one END: END is the last line and no other line
OneBatch(lines) ==
    /\ lines # <<>>
    /\ \A i \in DOMAIN lines : (Strip(lines[i]) = EndLine) <=> (i = Len(lines))

\* C20: with a helper that answers each request with one batch and one END
\* (it has not stalled).  When a call is about to send its request, nothing
\* is left to read from the current helper and nothing is left for it to
\* take.  The helper takes a request only from the process of the handle,
\* while exactly the thread that wrote it waits in _ReadResponse, holding
\* the lock, with nothing read yet and nothing in the pipe: the line taken
\* is that thread's own request, and the answer is one batch and END.  From
\* then on the lines that thread has read followed by the lines still in
\* the pipe stay the same, and the step that ends its read takes END as the
\* last line of the pipe: the call has read every line of its own batch and
\* no other line, and none is left for the next request.
C20_OwnLinesOnly ==
    /\ [](\A t \in Threads :
            (pc[t] \in {"cc_send", "gt_send"} /\ ~procs[handle].hung)
                => /\ procs[handle].stdout = <<>>
                   /\ procs[handle].alive => procs[handle].stdin = <<>>)
    /\ [][/\ \A p \in DOMAIN procs :
              Len(procs'[p].stdin) < Len(procs[p].stdin)
                  => /\ p = handle
                     /\ procs[p].stdout = <<>>
                     /\ procs'[p].stdin = <<>>
                     /\ ~procs'[p].hung => OneBatch(procs'[p].stdout)
                     /\ \E t \in Threads :
                           /\ pc[t] \in Reading /\ lock = t
                           /\ response[t] = <<>>
                           /\ Head(procs[p].stdin) =
                                 ExpectedText(op[t], req[t], tmpfile[t])
                                     \o <<"\n">>
                           /\ \A u \in Threads \ {t} : ~InExchange(u)
          /\ \A t \in Threads :
              (/\ pc[t] \in Reading
               /\ ~procs'[handle].hung
               /\ procs'[handle].stdin = procs[handle].stdin
               /\ eofReads'[t] = eofReads[t])
                  => IF pc'[t] = "done"
                     THEN /\ StripAll(procs[handle].stdout) = <<EndLine>>
                          /\ procs'[handle].stdout = <<>>
                          /\ procs'[handle].stdin = <<>>
                          /\ response'[t] = response[t]
                     ELSE response'[t] \o StripAll(procs'[handle].stdout)
                              = response[t] \o StripAll(procs[handle].stdout)]_vars

\* C20 witness: on one and the same helper, a go-to has read a batch of
\* three lines and returned on its first match, and a call of the other
\* thread has then read its own batch of one line; the pipe is empty.
C20_Witness ==
    \E t \in Threads : \E u \in Threads \ {t} :
        /\ Len(procs) = 1 /\ ~procs[handle].hung
        /\ BatchRead(t) /\ op[t] \in GoToOps /\ outcome[t] = "ok"
        /\ Len(response[t]) = 3
        /\ BatchRead(u) /\ Len(response[u]) = 1
        /\ HasMatchPrefix(response[u][1])
        /\ procs[handle].stdout = <<>> /\ procs[handle].stdin = <<>>

=============================================================================
